---- MODULE Spec2Model ----
(***************************************************************************)
(* Conclave AI: the three-phase debate of ConclaveAI.run_conclave_debate   *)
(* (src/conclave.py) over the fixed participants chatgpt, gemini, claude.  *)
(*                                                                         *)
(* Text is modelled as a sequence of tokens (words, punctuation, blanks):  *)
(* an f-string is the concatenation of its pieces, "\n".join puts a "\n"   *)
(* token between the joined lines.                                         *)
(***************************************************************************)
EXTENDS Integers, Sequences, FiniteSets, TLC

VARIABLES
    api_key,            \* self.openrouter_api_key: "set" or "None"
    pc,                 \* where the current run of run_conclave_debate stands
    question,           \* the argument of the current run
    tasks,              \* phase -> the calls of that phase, in dispatch order
    order,              \* indices of the calls of the batch the event loop ran last,
                        \* in completion order
    initial_responses,  \* the dict of line 105, as its items in insertion order
    refined_dict,       \* the dict of line 141, as its items in insertion order
    all_perspectives,   \* line 120
    refinement_prompt,  \* line 123
    consensus_prompt,   \* line 156
    result,             \* what the run returned (line 176)
    sends,              \* session.post calls made by the current run
    runs,               \* invocations of run_conclave_debate so far
    http,               \* the request /api/analyze is serving or served last (app.py)
    dead,               \* participants whose backend never answers a request
    other               \* the frame of the run of another request thread, if any

vars == <<api_key, pc, question, tasks, order, initial_responses, refined_dict,
          all_perspectives, refinement_prompt, consensus_prompt, result, sends, runs,
          http, dead, other>>

\* What lies outside one call of run_conclave_debate.
ctx == <<http, dead, other>>

----------------------------------------------------------------------------
(* Bounds *)

\* Invocations of run_conclave_debate on the one orchestrator instance.
MaxRuns == 2

----------------------------------------------------------------------------
(* Configuration: ConclaveAI.__init__ *)

\* The keys of self.models, in the order the dict literal registers them.
models == <<"chatgpt", "claude", "gemini">>

Participants == {models[i] : i \in DOMAIN models}

\* str.upper() on the participant names.
Upper(name) ==
    CASE name = "chatgpt" -> "CHATGPT"
      [] name = "claude"  -> "CLAUDE"
      [] name = "gemini"  -> "GEMINI"
      [] OTHER            -> name

\* os.getenv('OPENROUTER_API_KEY'): a value, or None when the variable is unset.
ApiKeys == {"set", "None"}

\* Mutant: query_model without the check of lines 52-53.
KeyNeverMissing(key) == FALSE

\* `not self.openrouter_api_key`
KeyMissing(key) == key = "None"

----------------------------------------------------------------------------
(* Inputs *)

\* The question argument: a str (its tokens) or None.
Str(text) == [isNone |-> FALSE, text |-> text]
NoneQuestion == [isNone |-> TRUE, text |-> <<>>]
Questions == {Str(<<>>), NoneQuestion, Str(<<"q">>)}

\* f"{question}": str(None) is "None".
Format(q) == IF q.isNone THEN <<"None">> ELSE q.text

\* Completion texts the gateway may produce.
Texts == {<<"x">>}

\* What session.post can come back with: an exception raised by the transport,
\* or a response with a status and a body (JSON for a 200, text otherwise).
Raises(msg) == [exc |-> TRUE, msg |-> msg, status |-> 0, data |-> [none |-> TRUE], text |-> <<>>]
Response(status, data, text) ==
    [exc |-> FALSE, msg |-> <<>>, status |-> status, data |-> data, text |-> text]

Completion(t) == [choices |-> <<[message |-> [content |-> t]]>>]
Malformed ==
    { [error |-> "overloaded"],                              \* no 'choices'
      [choices |-> <<[index |-> 0]>>],                       \* no 'message'
      [choices |-> <<[message |-> [role |-> "assistant"]]>>] \* no 'content'
    }

Replies ==
    {Raises(<<"Cannot connect to host">>)}
    \cup {Response(500, [none |-> TRUE], <<"Internal Server Error">>)}
    \cup {Response(200, Completion(t), <<>>) : t \in Texts}
    \cup {Response(200, [error |-> "overloaded"], <<>>)}

----------------------------------------------------------------------------
(* ConclaveAI.query_model *)

\* response.status == 200
HTTP_OK == 200

\* What one call of query_model hands to its caller: a returned string, or an
\* exception that propagates.
Returned(text) == [raised |-> FALSE, value |-> text]
Propagated(e) == [raised |-> TRUE, value |-> e]

\* line 53
NotConfigured(model_name) ==
    <<Upper(model_name), " ", "Error", ":", " ", "API key not configured">>

\* line 83
StatusError(model_name, status, error_text) ==
    <<Upper(model_name), " ", "Error", " ", ToString(status), ":", " ">> \o error_text

\* Mutant: the handler labels its string like line 53 does.
PlainError(model_name, e) ==
    <<Upper(model_name), " ", "Error", ":", " ">> \o e

\* line 86
ConnectionError(model_name, e) ==
    <<Upper(model_name), " ", "Connection", " ", "Error", ":", " ">> \o e

\* data['choices'][0]['message']['content']: the content, or the KeyError or
\* IndexError the subscripting raises (value: str(e)).
Content(data) ==
    IF "choices" \notin DOMAIN data THEN Propagated(<<"'choices'">>)
    ELSE IF Len(data.choices) = 0 THEN Propagated(<<"list index out of range">>)
    ELSE IF "message" \notin DOMAIN data.choices[1] THEN Propagated(<<"'message'">>)
    ELSE IF "content" \notin DOMAIN data.choices[1].message THEN Propagated(<<"'content'">>)
    ELSE Returned(data.choices[1].message.content)

\* Mutant: the handler re-raises.
Reraise(model_name, e) == Propagated(e)

\* except Exception as e (lines 84-86): the exception becomes a string.
Except(model_name, e) == Returned(ConnectionError(model_name, e))

\* Mutant: a non-200 status raises (response.raise_for_status()) outside the
\* handler.
HandleReplyRaising(model_name, reply) ==
    IF reply.exc THEN Except(model_name, reply.msg)
    ELSE IF reply.status = HTTP_OK
         THEN LET c == Content(reply.data)
              IN  IF c.raised THEN Except(model_name, c.value) ELSE c
         ELSE Propagated(<<ToString(reply.status)>>)

\* The try block of lines 74-86 on the reply of session.post.
HandleReply(model_name, reply) ==
    IF reply.exc THEN Except(model_name, reply.msg)
    ELSE IF reply.status = HTTP_OK
         THEN LET c == Content(reply.data)
              IN  IF c.raised THEN Except(model_name, c.value) ELSE c
         ELSE Returned(StatusError(model_name, reply.status, reply.text))

\* Which of the outcomes of a posted request a reply is.
ReplyKind(reply) ==
    IF reply.exc THEN "network"
    ELSE IF reply.status # HTTP_OK THEN "status"
    ELSE IF Content(reply.data).raised THEN "payload"
    ELSE "ok"

\* One call of query_model, as the event loop sees it: created, then inflight
\* (posted, waiting for the reply), then done (returned) or raised. kind records
\* which outcome ended it.
NoValue == <<>>
Task(model_name, prompt) ==
    [model |-> model_name, prompt |-> prompt, st |-> "created", kind |-> "pending",
     result |-> NoValue]

Settle(task, kind, outcome) ==
    [task EXCEPT !.st = IF outcome.raised THEN "raised" ELSE "done",
                 !.kind = kind,
                 !.result = outcome.value]

----------------------------------------------------------------------------
(* ConclaveAI.run_conclave_debate *)

Phases == 1..3

\* The models named in the task lists and the keys of the dict literals.
TaskModels == <<"chatgpt", "gemini", "claude">>            \* lines 97-101
InitialKeys == <<"chatgpt", "gemini", "claude">>           \* lines 105-109
\* Mutant: a copied line of the task list keeps the model of the line above.
RefinementTaskModelsCopied == <<"chatgpt", "gemini", "gemini">>
RefinementTaskModels == <<"chatgpt", "gemini", "claude">>  \* lines 133-137
\* Mutant: a copied line of the dict literal keeps the key of the line above.
RefinedKeysCopied == <<"chatgpt", "gemini", "gemini">>
RefinedKeys == <<"chatgpt", "gemini", "claude">>           \* lines 141-145
\* Mutant: the synthesizer is taken by position, the last one registered.
LastRegistered == models[Len(models)]
Synthesizer == "claude"                                    \* line 172
\* "Phase 3: Consensus (Claude handles final synthesis)", line 151
DesignatedSynthesizer == "claude"

NoResult ==
    [returned |-> FALSE, question |-> NoneQuestion, initial_responses |-> <<>>,
     refined_responses |-> <<>>, consensus |-> NoValue, timestamp |-> "never"]

\* Mutant: asyncio.wait(..., return_when=FIRST_COMPLETED) in place of the join.
first_completed(ts) == \E i \in DOMAIN ts : ts[i].st = "done"

\* Mutant: the join waits until every call has returned a completion.
joined_when_all_ok(ts) == \A i \in DOMAIN ts : ts[i].st = "done" /\ ts[i].kind = "ok"

\* asyncio.gather(*tasks) has joined: every call has returned.
gather_joined(ts) == \A i \in DOMAIN ts : ts[i].st = "done"

\* asyncio.gather(*tasks) re-raises the exception of a call that raised.
gather_failed(ts) == \E i \in DOMAIN ts : ts[i].st = "raised"

\* Mutant: the results in the order in which the calls finished
\* (asyncio.as_completed).
as_completed(ts, completed) ==
    [i \in DOMAIN ts |-> IF i \in DOMAIN completed /\ completed[i] \in DOMAIN ts
                         THEN ts[completed[i]].result ELSE NoValue]

\* The list asyncio.gather returns: the results in the order of the awaitables,
\* whatever the order `completed` in which they finished.
gather(ts, completed) == [i \in DOMAIN ts |-> ts[i].result]

\* A dict literal {keys[0]: responses[0], ...}: its items, in insertion order.
Dict(keys, responses) ==
    [i \in DOMAIN keys |-> [model |-> keys[i], response |-> responses[i]]]

\* Mutant: each result is stored under its participant as its call finishes, so
\* the dict's insertion order is the completion order.
CollectAsCompleted(keys, ts, completed) ==
    [i \in DOMAIN completed |->
        [model |-> keys[completed[i]], response |-> ts[completed[i]].result]]

\* responses = await asyncio.gather(*tasks), then the dict literal over them
\* (lines 103-109 and 139-145).
CollectDict(keys, ts, completed) == Dict(keys, gather(ts, completed))

\* "\n".join(lines)
RECURSIVE Join(_)
Join(lines) ==
    IF lines = <<>> THEN <<>>
    ELSE IF Len(lines) = 1 THEN lines[1]
    ELSE lines[1] \o <<"\n">> \o Join(Tail(lines))

\* Mutant: the lines are rendered by iterating self.models and looking each
\* participant up in the dict.
PerspectivesByRegistry(d) ==
    Join([i \in DOMAIN models |->
            <<Upper(models[i]), ":", " ">>
            \o d[CHOOSE j \in DOMAIN d : d[j].model = models[i]].response])

\* [f"{model.upper()}: {response}" for model, response in d.items()], joined.
Perspectives(d) ==
    Join([i \in DOMAIN d |-> <<Upper(d[i].model), ":", " ">> \o d[i].response])

\* Mutant: the refinement prompt leaves the question out.
RefinementPromptBare(q, perspectives) ==
    <<"Original Question: ">>
    \o <<"All AI Perspectives:">> \o perspectives
    \o <<"Based on the other AIs' responses, provide your refined perspective.">>

\* lines 123-131
RefinementPrompt(q, perspectives) ==
    <<"Original Question: ">> \o Format(q)
    \o <<"All AI Perspectives:">> \o perspectives
    \o <<"Based on the other AIs' responses, provide your refined perspective.">>

\* lines 156-170
ConsensusPrompt(q, perspectives, refined) ==
    <<"Question: ">> \o Format(q)
    \o <<"After thorough debate, synthesize the best insights">>
    \o <<"All perspectives considered:">> \o perspectives
    \o <<"Refined perspectives:">> \o Perspectives(refined)

\* Mutant: the consensus handed back is the refined transcript followed by the
\* synthesizer's text.
AssembleAggregated(q, initial, refined, consensus) ==
    [returned |-> TRUE, question |-> q, initial_responses |-> initial,
     refined_responses |-> refined,
     consensus |-> Perspectives(refined) \o <<"\n">> \o consensus, timestamp |-> "now"]

\* The dict returned at lines 176-182.
Assemble(q, initial, refined, consensus) ==
    [returned |-> TRUE, question |-> q, initial_responses |-> initial,
     refined_responses |-> refined, consensus |-> consensus, timestamp |-> "now"]

(* The route /api/analyze of app.py *)

\* The bodies a POST can carry.  A JSON object is a function from its keys.
NoBody == [json |-> FALSE, obj |-> <<>>]
Json(obj) == [json |-> TRUE, obj |-> obj]
Bodies ==
    { NoBody, Json([topic |-> Str(<<"q">>)]), Json([question |-> NoneQuestion]),
      Json([question |-> Str(<<>>)]), Json([question |-> Str(<<" ">>)]),
      Json([question |-> Str(<<" ", "q", " ">>)]) }

\* request.get_json() (line 40): the parsed object; for a request without a
\* JSON body either None or, in a Flask that refuses it, an HTTP exception.
NoneData == [raised |-> FALSE, isNone |-> TRUE, obj |-> <<>>]
get_json(body) ==
    IF body.json THEN {[raised |-> FALSE, isNone |-> FALSE, obj |-> body.obj]}
    ELSE {NoneData, [raised |-> TRUE, isNone |-> TRUE, obj |-> <<>>]}

\* str.strip() (line 45) on a text of tokens.
RECURSIVE lstrip(_)
lstrip(s) == IF s # <<>> /\ s[1] = " " THEN lstrip(Tail(s)) ELSE s

RECURSIVE rstrip(_)
rstrip(s) ==
    IF s # <<>> /\ s[Len(s)] = " " THEN rstrip(SubSeq(s, 1, Len(s) - 1)) ELSE s

strip(s) == lstrip(rstrip(s))

NoRequest == [pending |-> FALSE, status |-> 0, body |-> NoBody, started |-> FALSE]
Responded(body, status, started) ==
    [pending |-> FALSE, status |-> status, body |-> body, started |-> started]

\* The frame of a run that is not there.
NoFrame == [live |-> FALSE]

Constructed ==
    /\ api_key \in ApiKeys
    /\ pc = "INIT"
    /\ question = NoneQuestion
    /\ tasks = [ph \in Phases |-> <<>>]
    /\ order = <<>>
    /\ initial_responses = <<>>
    /\ refined_dict = <<>>
    /\ all_perspectives = <<>>
    /\ refinement_prompt = <<>>
    /\ consensus_prompt = <<>>
    /\ result = NoResult
    /\ sends = 0
    /\ runs = 0

\* The instance as a script uses it: no web request, every backend answers,
\* one run at a time.
Init ==
    /\ Constructed
    /\ http = NoRequest
    /\ dead = {}
    /\ other = NoFrame

\* A caller invokes run_conclave_debate(q) on the instance (lines 88-90).
Invoke(q) ==
    /\ pc \in {"INIT", "DONE", "FAILED"}
    /\ runs < MaxRuns
    /\ runs' = runs + 1
    /\ question' = q
    /\ pc' = "PHASE1_DISPATCH"
    /\ tasks' = [ph \in Phases |-> <<>>]
    /\ order' = <<>>
    /\ initial_responses' = <<>>
    /\ refined_dict' = <<>>
    /\ all_perspectives' = <<>>
    /\ refinement_prompt' = <<>>
    /\ consensus_prompt' = <<>>
    /\ result' = NoResult
    /\ sends' = 0
    /\ UNCHANGED api_key

\* lines 97-103: the three calls are created and handed to asyncio.gather.
Dispatch1 ==
    /\ pc = "PHASE1_DISPATCH"
    /\ tasks' = [tasks EXCEPT ![1] =
                    [i \in DOMAIN TaskModels |-> Task(TaskModels[i], question)]]
    /\ pc' = "PHASE1_COLLECT"
    /\ UNCHANGED <<api_key, question, order, initial_responses, refined_dict, all_perspectives,
                   refinement_prompt, consensus_prompt, result, sends, runs>>

\* The event loop runs a created call up to its first suspension (lines 52-76):
\* calls start in the order they were scheduled. Without a key the call returns
\* at line 53; otherwise it posts its request and waits for the reply.
QueryStart(ph, i) ==
    /\ i \in DOMAIN tasks[ph]
    /\ tasks[ph][i].st = "created"
    /\ \A j \in 1..(i - 1) : tasks[ph][j].st # "created"
    /\ LET t == tasks[ph][i]
           before == IF i = 1 THEN <<>> ELSE order   \* a new batch starts
       IN
        IF KeyMissing(api_key)
        THEN /\ tasks' = [tasks EXCEPT ![ph][i] =
                            Settle(t, "credential", Returned(NotConfigured(t.model)))]
             /\ order' = Append(before, i)
             /\ sends' = sends
        ELSE IF t.model \notin Participants       \* self.models[model_name], line 62
        THEN /\ tasks' = [tasks EXCEPT ![ph][i] =
                            Settle(t, "unknown model", Propagated(<<t.model>>))]
             /\ order' = Append(before, i)
             /\ sends' = sends
        ELSE /\ tasks' = [tasks EXCEPT ![ph][i].st = "inflight"]
             /\ order' = before
             /\ sends' = sends + 1
    /\ UNCHANGED <<api_key, pc, question, initial_responses, refined_dict, all_perspectives,
                   refinement_prompt, consensus_prompt, result, runs>>

\* The reply of a posted request arrives (lines 76-86); replies arrive in any
\* order, once every scheduled call has run to its suspension.
QueryFinish(ph, i, reply) ==
    /\ i \in DOMAIN tasks[ph]
    /\ tasks[ph][i].st = "inflight"
    /\ \A j \in DOMAIN tasks[ph] : tasks[ph][j].st # "created"
    /\ tasks[ph][i].model \notin dead
    /\ tasks' = [tasks EXCEPT ![ph][i] =
                    Settle(tasks[ph][i], ReplyKind(reply),
                           HandleReply(tasks[ph][i].model, reply))]
    /\ order' = Append(order, i)
    /\ UNCHANGED <<api_key, pc, question, initial_responses, refined_dict, all_perspectives,
                   refinement_prompt, consensus_prompt, result, sends, runs>>

\* lines 103-109: gather returns and initial_responses is built.
Collect1 ==
    /\ pc = "PHASE1_COLLECT"
    /\ gather_joined(tasks[1]) \/ gather_failed(tasks[1])
    /\ IF gather_failed(tasks[1])
       THEN pc' = "FAILED" /\ initial_responses' = initial_responses
       ELSE /\ initial_responses' = CollectDict(InitialKeys, tasks[1], order)
            /\ pc' = "PHASE2_DISPATCH"
    /\ UNCHANGED <<api_key, question, tasks, order, refined_dict, all_perspectives,
                   refinement_prompt, consensus_prompt, result, sends, runs>>

\* lines 120-139: the refinement prompt is built and sent to the three models.
Dispatch2 ==
    /\ pc = "PHASE2_DISPATCH"
    /\ all_perspectives' = Perspectives(initial_responses)
    /\ refinement_prompt' = RefinementPrompt(question, all_perspectives')
    /\ tasks' = [tasks EXCEPT ![2] =
                    [i \in DOMAIN RefinementTaskModels |->
                        Task(RefinementTaskModels[i], Str(refinement_prompt'))]]
    /\ pc' = "PHASE2_COLLECT"
    /\ UNCHANGED <<api_key, question, order, initial_responses, refined_dict,
                   consensus_prompt, result, sends, runs>>

\* lines 139-145: gather returns and refined_dict is built.
Collect2 ==
    /\ pc = "PHASE2_COLLECT"
    /\ gather_joined(tasks[2]) \/ gather_failed(tasks[2])
    /\ IF gather_failed(tasks[2])
       THEN pc' = "FAILED" /\ refined_dict' = refined_dict
       ELSE /\ refined_dict' = CollectDict(RefinedKeys, tasks[2], order)
            /\ pc' = "PHASE3_SYNTHESIZE"
    /\ UNCHANGED <<api_key, question, tasks, order, initial_responses, all_perspectives,
                   refinement_prompt, consensus_prompt, result, sends, runs>>

\* lines 156-172: the consensus prompt is built and sent to one model.
Dispatch3 ==
    /\ pc = "PHASE3_SYNTHESIZE"
    /\ tasks[3] = <<>>
    /\ consensus_prompt' = ConsensusPrompt(question, all_perspectives, refined_dict)
    /\ tasks' = [tasks EXCEPT ![3] = <<Task(Synthesizer, Str(consensus_prompt'))>>]
    /\ UNCHANGED <<api_key, pc, question, order, initial_responses, refined_dict,
                   all_perspectives, refinement_prompt, result, sends, runs>>

\* lines 172-182: the consensus call returns and the result is assembled.
Return ==
    /\ pc = "PHASE3_SYNTHESIZE"
    /\ tasks[3] # <<>>
    /\ gather_joined(tasks[3]) \/ gather_failed(tasks[3])
    /\ IF gather_failed(tasks[3])
       THEN pc' = "FAILED" /\ result' = result
       ELSE /\ result' = Assemble(question, initial_responses, refined_dict,
                                   tasks[3][1].result)
            /\ pc' = "DONE"
    /\ UNCHANGED <<api_key, question, tasks, order, initial_responses, refined_dict,
                   all_perspectives, refinement_prompt, consensus_prompt, sends, runs>>

\* The variables of one call of run_conclave_debate.
frame == <<pc, question, tasks, order, initial_responses, refined_dict, all_perspectives,
           refinement_prompt, consensus_prompt, result, sends>>

\* app.py lines 37-51: a POST arrives; it is answered at once with 400 or 500,
\* or the debate is started (asyncio.run, line 51) and the request waits.
analyze_question(body, data) ==
    /\ pc \in {"INIT", "DONE", "FAILED"}
    /\ ~http.pending
    /\ data \in get_json(body)
    /\ IF data.raised
       THEN http' = Responded(body, 500, FALSE) /\ UNCHANGED <<api_key, runs, frame>>
       ELSE IF data.isNone \/ "question" \notin DOMAIN data.obj
       THEN http' = Responded(body, 400, FALSE) /\ UNCHANGED <<api_key, runs, frame>>
       ELSE IF data.obj.question.isNone
       THEN http' = Responded(body, 500, FALSE) /\ UNCHANGED <<api_key, runs, frame>>
       ELSE IF strip(data.obj.question.text) = <<>>
       THEN http' = Responded(body, 400, FALSE) /\ UNCHANGED <<api_key, runs, frame>>
       ELSE /\ Invoke(Str(strip(data.obj.question.text)))
            /\ http' = [pending |-> TRUE, status |-> 0, body |-> body, started |-> TRUE]
    /\ UNCHANGED <<dead, other>>

\* app.py lines 51-66: asyncio.run returns the result and the route answers 200,
\* or it raised and the handler answers 500.
respond ==
    /\ http.pending
    /\ pc \in {"DONE", "FAILED"}
    /\ http' = Responded(http.body, IF pc = "DONE" THEN 200 ELSE 500, TRUE)
    /\ UNCHANGED <<api_key, runs, frame, dead, other>>

Next ==
    \/ \E q \in Questions : Invoke(q) /\ UNCHANGED ctx
    \/ Dispatch1 /\ UNCHANGED ctx
    \/ \E ph \in Phases, i \in 1..3 : QueryStart(ph, i) /\ UNCHANGED ctx
    \/ \E ph \in Phases, i \in 1..3, reply \in Replies :
        QueryFinish(ph, i, reply) /\ UNCHANGED ctx
    \/ Collect1 /\ UNCHANGED ctx
    \/ Dispatch2 /\ UNCHANGED ctx
    \/ Collect2 /\ UNCHANGED ctx
    \/ Dispatch3 /\ UNCHANGED ctx
    \/ Return /\ UNCHANGED ctx

Spec == Init /\ [][Next]_vars

\* The instance behind the web front end: runs are started by requests only.
NextWeb ==
    \/ \E body \in Bodies : \E data \in get_json(body) : analyze_question(body, data)
    \/ Dispatch1 /\ UNCHANGED ctx
    \/ \E ph \in Phases, i \in 1..3 : QueryStart(ph, i) /\ UNCHANGED ctx
    \/ \E ph \in Phases, i \in 1..3, reply \in Replies :
        QueryFinish(ph, i, reply) /\ UNCHANGED ctx
    \/ Collect1 /\ UNCHANGED ctx
    \/ Dispatch2 /\ UNCHANGED ctx
    \/ Collect2 /\ UNCHANGED ctx
    \/ Dispatch3 /\ UNCHANGED ctx
    \/ Return /\ UNCHANGED ctx
    \/ respond

SpecWeb == Init /\ [][NextWeb]_vars

----------------------------------------------------------------------------
(* Reading the state *)

Keys(d) == {d[i].model : i \in DOMAIN d}
Lookup(d, key) == d[CHOOSE i \in DOMAIN d : d[i].model = key].response
Entries(d, key) == {i \in DOMAIN d : d[i].model = key}

\* The calls of a phase that were issued to participant p.
CallsTo(ph, p) == {i \in DOMAIN tasks[ph] : tasks[ph][i].model = p}

NonEmpty(q) == ~q.isNone /\ q.text # <<>>

\* An inline error string of participant p: "<P> ... Error ...".
IsInlineError(p, s) ==
    /\ Len(s) >= 3
    /\ s[1] = Upper(p)
    /\ \E i \in 2..Len(s) : s[i] = "Error"

IsEntry(p, s) == s \in Texts \/ IsInlineError(p, s)

OneEntryEach(d) ==
    /\ Keys(d) = Participants
    /\ \A p \in Participants :
        /\ Cardinality(Entries(d, p)) = 1
        /\ IsEntry(p, Lookup(d, p))

Resolved(ph) ==
    /\ Len(tasks[ph]) = Cardinality(Participants)
    /\ \A i \in DOMAIN tasks[ph] : tasks[ph][i].st = "done"

----------------------------------------------------------------------------
(* Claims *)

\* C1: for a non-empty question, whichever calls fail and however, the run
\* never ends in a propagated exception and never gets stuck, and the result
\* it returns holds in initial_responses and in refined_responses exactly one
\* entry per participant (the same names in both), each a completion text or
\* an inline error string of that participant.
C1_OneEntryPerParticipant ==
    (runs > 0 /\ NonEmpty(question)) =>
        /\ pc # "FAILED"
        /\ pc # "DONE" => ENABLED Next
        /\ pc = "DONE" =>
            /\ result.returned
            /\ OneEntryEach(result.initial_responses)
            /\ OneEntryEach(result.refined_responses)
            /\ Keys(result.initial_responses) = Keys(result.refined_responses)

\* A returned result in which chatgpt answered and gemini and claude failed in
\* phase 1, and gemini failed again in phase 2 while claude answered.
C1_Witness ==
    /\ pc = "DONE" /\ NonEmpty(question) /\ result.returned
    /\ Lookup(result.initial_responses, "chatgpt") \in Texts
    /\ tasks[1][2].kind = "status" /\ tasks[1][3].kind = "network"
    /\ tasks[2][1].kind = "payload" /\ tasks[2][2].kind = "status"
    /\ Lookup(result.refined_responses, "claude") \in Texts

\* C2: the refinement prompt is built and the phase-2 calls are dispatched only
\* when every phase-1 call has returned; the consensus prompt is built and the
\* phase-3 call dispatched only when every phase-2 call has returned.
C2_BarrierJoin ==
    /\ (\/ pc \in {"PHASE2_DISPATCH", "PHASE2_COLLECT", "PHASE3_SYNTHESIZE", "DONE"}
        \/ initial_responses # <<>> \/ refinement_prompt # <<>> \/ tasks[2] # <<>>)
       => Resolved(1)
    /\ (\/ pc \in {"PHASE3_SYNTHESIZE", "DONE"}
        \/ refined_dict # <<>> \/ consensus_prompt # <<>> \/ tasks[3] # <<>>)
       => Resolved(1) /\ Resolved(2)

\* The phase-3 call is out, after a phase 2 whose first dispatched call
\* (chatgpt's) was the last to return.
C2_Witness ==
    /\ tasks[3] # <<>> /\ consensus_prompt # <<>> /\ refinement_prompt # <<>>
    /\ order = <<3, 2, 1>>
    /\ ~KeyMissing(api_key)

\* C3: whatever the order in which the calls of a phase return, the entry of
\* participant p in initial_responses (refined_dict) is the text returned by
\* the phase-1 (phase-2) call issued to p.
C3_PairingByParticipant ==
    /\ initial_responses # <<>> =>
        \A p \in Participants : \A i \in CallsTo(1, p) :
            /\ p \in Keys(initial_responses)
            /\ Lookup(initial_responses, p) = tasks[1][i].result
    /\ refined_dict # <<>> =>
        \A p \in Participants : \A i \in CallsTo(2, p) :
            /\ p \in Keys(refined_dict)
            /\ Lookup(refined_dict, p) = tasks[2][i].result

\* Both dicts are built, phase 2 returned in the order claude, chatgpt, gemini,
\* and the three participants returned three different texts in it.
C3_Witness ==
    /\ pc = "PHASE3_SYNTHESIZE" /\ tasks[3] = <<>>
    /\ initial_responses # <<>> /\ refined_dict # <<>>
    /\ order = <<3, 1, 2>>
    /\ tasks[2][1].kind = "ok" /\ tasks[2][2].kind = "status" /\ tasks[2][3].kind = "network"
    /\ tasks[1][1].kind = "network" /\ tasks[1][3].kind = "ok"

\* C4: an empty or absent question is rejected before any dispatch: no call
\* of query_model is issued and nothing is sent.
C4_RejectsInvalidQuestion ==
    (runs > 0 /\ ~NonEmpty(question)) =>
        /\ \A ph \in Phases : tasks[ph] = <<>>
        /\ sends = 0

\* The calls that were handed the consensus prompt.
ConsensusCalls ==
    {c \in Phases \X (1..3) :
        /\ c[2] \in DOMAIN tasks[c[1]]
        /\ tasks[c[1]][c[2]].prompt = Str(consensus_prompt)}

\* C5: at most one call is ever issued in phase 3, a finished run has issued
\* exactly one, it is the only call handed the consensus prompt, and it goes to
\* the designated synthesizer.
C5_SynthesizerExclusive ==
    /\ Len(tasks[3]) <= 1
    /\ \A i \in DOMAIN tasks[3] : tasks[3][i].model = DesignatedSynthesizer
    /\ pc = "DONE" => Len(tasks[3]) = 1
    /\ consensus_prompt # <<>> =>
        /\ Cardinality(ConsensusCalls) = 1
        /\ \A c \in ConsensusCalls : c[1] = 3 /\ tasks[c[1]][c[2]].model = DesignatedSynthesizer

\* A finished run whose consensus came from claude, who is neither the first
\* nor the last participant registered in self.models.
C5_Witness ==
    /\ pc = "DONE" /\ result.returned
    /\ tasks[3][1].model = "claude" /\ tasks[3][1].kind = "ok"
    /\ models[1] # "claude" /\ models[Len(models)] # "claude"

\* Every malformed payload of a 200 response ends in a returned error string.
MalformedHandled ==
    \A p \in Participants, d \in Malformed :
        LET o == HandleReply(p, Response(HTTP_OK, d, <<>>))
        IN  ~o.raised /\ IsInlineError(p, o.value)

\* C6: no call of query_model propagates an exception, whichever way it fails:
\* the call returns a string, and that string is the participant's entry for
\* the phase. The handler turns every malformed payload into a string.
C6_NeverPropagates ==
    /\ pc # "FAILED"
    /\ \A ph \in Phases : \A i \in DOMAIN tasks[ph] :
        /\ tasks[ph][i].st # "raised"
        /\ tasks[ph][i].st = "done" => tasks[ph][i].result # NoValue
    /\ MalformedHandled
    /\ initial_responses # <<>> =>
        \A i \in DOMAIN tasks[1] : tasks[1][i].kind # "ok" =>
            Lookup(initial_responses, tasks[1][i].model) = tasks[1][i].result
    /\ refined_dict # <<>> =>
        \A i \in DOMAIN tasks[2] : tasks[2][i].kind # "ok" =>
            Lookup(refined_dict, tasks[2][i].model) = tasks[2][i].result

\* Phase 1 has been collected after a network exception, a malformed payload
\* and a non-200 status.
C6_Witness ==
    /\ pc = "PHASE2_DISPATCH" /\ initial_responses # <<>>
    /\ tasks[1][1].kind = "network" /\ tasks[1][2].kind = "payload"
    /\ tasks[1][3].kind = "status"
    /\ \A i \in 1..3 : IsInlineError(tasks[1][i].model, initial_responses[i].response)

\* The shapes of a failure string of participant p.
Prefix(s, head) == Len(s) >= Len(head) /\ SubSeq(s, 1, Len(head)) = head
StatusTexts == {ToString(n) : n \in 100..599}
ShapeError(s, p) == Prefix(s, <<Upper(p), " ", "Error", ":", " ">>)
ShapeStatus(s, p) ==
    /\ Prefix(s, <<Upper(p), " ", "Error", " ">>)
    /\ Len(s) >= 7
    /\ s[5] \in StatusTexts /\ s[6] = ":" /\ s[7] = " "
ShapeConnection(s, p) == Prefix(s, <<Upper(p), " ", "Connection", " ", "Error", ":", " ">>)

FailedCalls ==
    {c \in Phases \X (1..3) :
        /\ c[2] \in DOMAIN tasks[c[1]]
        /\ tasks[c[1]][c[2]].st = "done"
        /\ tasks[c[1]][c[2]].kind # "ok"}

\* C7 as stated: every failure string is "<P> Error: <detail>" or
\* "<P> Error <status>: <body>".
C7_TwoShapes ==
    \A c \in FailedCalls :
        LET t == tasks[c[1]][c[2]]
        IN  ShapeError(t.result, t.model) \/ ShapeStatus(t.result, t.model)

\* Every malformed payload of a 200 response gives a "Connection Error" string.
MalformedShaped ==
    \A p \in Participants, d \in Malformed :
        ShapeConnection(HandleReply(p, Response(HTTP_OK, d, <<>>)).value, p)

\* C7, amended: a missing credential gives "<P> Error: <detail>", a non-200
\* response "<P> Error <status>: <body>", and a network error or a malformed
\* payload "<P> Connection Error: <detail>".
C7_ThreeShapes ==
    /\ \A c \in FailedCalls :
        LET t == tasks[c[1]][c[2]]
        IN  /\ t.kind = "credential" => ShapeError(t.result, t.model)
            /\ t.kind = "status" => ShapeStatus(t.result, t.model)
            /\ t.kind \in {"network", "payload"} => ShapeConnection(t.result, t.model)
            /\ t.kind \in {"credential", "status", "network", "payload"}
    /\ MalformedShaped

\* One phase in which the three calls failed in the three ways a posted
\* request can fail.
C7_Witness ==
    /\ Len(tasks[2]) = 3
    /\ tasks[2][1].kind = "payload" /\ ShapeConnection(tasks[2][1].result, "chatgpt")
    /\ tasks[2][2].kind = "network" /\ ShapeConnection(tasks[2][2].result, "gemini")
    /\ tasks[2][3].kind = "status" /\ ShapeStatus(tasks[2][3].result, "claude")

\* "<P> Error: API key not configured"
NotConfiguredText(p) == <<Upper(p), " ", "Error", ":", " ", "API key not configured">>

\* C8: without a credential the orchestrator exists and a run goes through the
\* three phases: nothing is sent, every call returns the "not configured"
\* string of its participant, both transcripts hold one such string per
\* participant and the consensus is the synthesizer's.
C8_RunsWithoutCredential ==
    api_key = "None" =>
        /\ sends = 0
        /\ pc # "FAILED"
        /\ (runs > 0 /\ pc # "DONE") => ENABLED Next
        /\ \A ph \in Phases : \A i \in DOMAIN tasks[ph] :
            /\ tasks[ph][i].st \in {"created", "done"}
            /\ tasks[ph][i].st = "done" =>
                tasks[ph][i].result = NotConfiguredText(tasks[ph][i].model)
        /\ pc = "DONE" =>
            /\ result.returned
            /\ Len(tasks[1]) = 3 /\ Len(tasks[2]) = 3 /\ Len(tasks[3]) = 1
            /\ Keys(result.initial_responses) = Participants
            /\ Keys(result.refined_responses) = Participants
            /\ \A p \in Participants :
                /\ Lookup(result.initial_responses, p) = NotConfiguredText(p)
                /\ Lookup(result.refined_responses, p) = NotConfiguredText(p)
            /\ result.consensus = NotConfiguredText(DesignatedSynthesizer)

\* A run without a credential has returned its result.
C8_Witness ==
    /\ api_key = "None" /\ pc = "DONE" /\ result.returned /\ NonEmpty(question)
    /\ result.consensus = NotConfiguredText("claude")
    /\ sends = 0

\* The lines of a text, split at its "\n" tokens.
RECURSIVE SplitLines(_, _)
SplitLines(s, line) ==
    IF s = <<>> THEN <<line>>
    ELSE IF Head(s) = "\n" THEN <<line>> \o SplitLines(Tail(s), <<>>)
    ELSE SplitLines(Tail(s), Append(line, Head(s)))

\* The labels of a rendered transcript: the first token of each line.
Labels(rendered) ==
    LET lines == SplitLines(rendered, <<>>)
    IN  [i \in DOMAIN lines |-> IF lines[i] = <<>> THEN "" ELSE lines[i][1]]

RegistryLabels == [i \in DOMAIN models |-> Upper(models[i])]

\* The place of the header token tok in a prompt (0: not in it). The prompts
\* hold each header once.
IndexOf(s, tok) ==
    LET at == {i \in DOMAIN s : s[i] = tok}
    IN  IF at = {} THEN 0 ELSE CHOOSE i \in at : TRUE

\* The part of a prompt after the header token `from`.
After(s, from) ==
    LET k == IndexOf(s, from)
    IN  IF k = 0 THEN <<>> ELSE SubSeq(s, k + 1, Len(s))

\* C9: the transcripts rendered into the refinement and the consensus prompt
\* hold one line "NAME: <response>" per participant, in the order in which
\* self.models registers the participants.
C9_RegistryOrder ==
    /\ all_perspectives # <<>> => Labels(all_perspectives) = RegistryLabels
    /\ consensus_prompt # <<>> =>
        Labels(After(consensus_prompt, "Refined perspectives:")) = RegistryLabels

\* The part of a prompt before the header token `upto`.
Before(s, upto) ==
    LET k == IndexOf(s, upto)
    IN  IF k = 0 THEN s ELSE SubSeq(s, 1, k - 1)

\* The order of the task lists and of the dict literals of run_conclave_debate.
DispatchOrder == <<"chatgpt", "gemini", "claude">>

\* The line "NAME: <response>" of the i-th participant of DispatchOrder in d.
LineOf(d, i) == <<Upper(DispatchOrder[i]), ":", " ">> \o Lookup(d, DispatchOrder[i])

\* rendered is one line "NAME: <response>" per participant, in DispatchOrder,
\* each with the entry of that participant in d.
RendersInDispatchOrder(rendered, d) ==
    /\ \A i \in DOMAIN DispatchOrder : DispatchOrder[i] \in Keys(d)
    /\ rendered = LineOf(d, 1) \o <<"\n">> \o LineOf(d, 2) \o <<"\n">> \o LineOf(d, 3)

\* C9, amended: the transcripts rendered into the refinement and the consensus
\* prompt hold one line "NAME: <response>" per participant, in the fixed order
\* chatgpt, gemini, claude of the task lists and dict literals, for the phase-1
\* and the phase-2 transcript alike.
C9_DispatchOrder ==
    /\ all_perspectives # <<>> =>
        RendersInDispatchOrder(all_perspectives, initial_responses)
    /\ refinement_prompt # <<>> =>
        RendersInDispatchOrder(
            Before(After(refinement_prompt, "All AI Perspectives:"),
                   "Based on the other AIs' responses, provide your refined perspective."),
            initial_responses)
    /\ consensus_prompt # <<>> =>
        /\ RendersInDispatchOrder(
                Before(After(consensus_prompt, "All perspectives considered:"),
                       "Refined perspectives:"),
                initial_responses)
        /\ RendersInDispatchOrder(After(consensus_prompt, "Refined perspectives:"),
                                  refined_dict)

\* The consensus prompt is built from two transcripts that mix completions
\* and error strings, and the registry lists claude before gemini.
C9_Witness ==
    /\ consensus_prompt # <<>> /\ all_perspectives # <<>>
    /\ Labels(all_perspectives) = <<"CHATGPT", "GEMINI", "CLAUDE">>
    /\ RegistryLabels = <<"CHATGPT", "CLAUDE", "GEMINI">>
    /\ tasks[1][2].kind = "ok" /\ tasks[1][3].kind = "status"
    /\ tasks[2][2].kind = "network" /\ tasks[2][3].kind = "ok"

\* The text returned by the call of phase ph issued to participant p.
ReturnedTo(ph, p) == tasks[ph][CHOOSE i \in CallsTo(ph, p) : TRUE].result

\* The transcript of a phase as a function of the per-participant texts alone.
Transcript(ph) ==
    <<"CHATGPT", ":", " ">> \o ReturnedTo(ph, "chatgpt")
    \o <<"\n", "GEMINI", ":", " ">> \o ReturnedTo(ph, "gemini")
    \o <<"\n", "CLAUDE", ":", " ">> \o ReturnedTo(ph, "claude")

\* C10: the refinement prompt and the consensus prompt are functions of the
\* question and of the texts each participant returned in each phase, and of
\* nothing else: whatever the order in which the calls completed, the prompts
\* are the same text, so two runs that agree on the question and on the
\* per-participant texts build identical prompts.
C10_PromptsDetermined ==
    /\ refinement_prompt # <<>> =>
        refinement_prompt = RefinementPrompt(question, Transcript(1))
    /\ consensus_prompt # <<>> =>
        consensus_prompt =
            <<"Question: ">> \o Format(question)
            \o <<"After thorough debate, synthesize the best insights">>
            \o <<"All perspectives considered:">> \o Transcript(1)
            \o <<"Refined perspectives:">> \o Transcript(2)

\* Both prompts are built, after a phase 2 that completed in the order gemini,
\* claude, chatgpt with three different texts.
C10_Witness ==
    /\ consensus_prompt # <<>> /\ refinement_prompt # <<>>
    /\ order = <<2, 3, 1>>
    /\ tasks[2][1].kind = "status" /\ tasks[2][2].kind = "ok" /\ tasks[2][3].kind = "payload"
    /\ NonEmpty(question)

\* C11: the consensus of the returned result is the text the phase-3 call
\* returned, unchanged, error string or not; and in both transcripts of the
\* result every participant's entry is what its own call returned: an inline
\* error string naming the status for a call that met a non-200 response, a
\* completion for a call that succeeded.
C11_ConsensusVerbatim ==
    pc = "DONE" =>
        /\ result.consensus = tasks[3][1].result
        /\ \A i \in DOMAIN tasks[1] :
            LET t == tasks[1][i]
                entry == Lookup(result.initial_responses, t.model)
            IN  /\ entry = t.result
                /\ t.kind = "status" =>
                    IsInlineError(t.model, entry) /\ \E k \in DOMAIN entry : entry[k] = "500"
                /\ t.kind = "ok" => entry \in Texts
        /\ \A i \in DOMAIN tasks[2] :
            LET t == tasks[2][i]
                entry == Lookup(result.refined_responses, t.model)
            IN  /\ entry = t.result
                /\ t.kind = "status" =>
                    IsInlineError(t.model, entry) /\ \E k \in DOMAIN entry : entry[k] = "500"
                /\ t.kind = "ok" => entry \in Texts

\* chatgpt and claude answered and gemini met a 500 in both phases, and claude's
\* phase-3 completion is the consensus.
C11_Witness ==
    /\ pc = "DONE" /\ result.returned
    /\ tasks[1][1].kind = "ok" /\ tasks[1][2].kind = "status" /\ tasks[1][3].kind = "ok"
    /\ tasks[2][1].kind = "ok" /\ tasks[2][2].kind = "status" /\ tasks[2][3].kind = "ok"
    /\ tasks[3][1].kind = "ok" /\ result.consensus \in Texts
    /\ \E k \in DOMAIN Lookup(result.refined_responses, "gemini") :
        Lookup(result.refined_responses, "gemini")[k] = "500"

\* C14: the program counter of a run moves only from each state of the sequence
\* INIT, PHASE1_DISPATCH, PHASE1_COLLECT, PHASE2_DISPATCH, PHASE2_COLLECT,
\* PHASE3_SYNTHESIZE, DONE to the next one; nothing is skipped or revisited and
\* no failed call leads anywhere else.  A later invocation on the same instance
\* starts its own sequence from the idle state DONE left behind.
PhaseOrder ==
    <<"INIT", "PHASE1_DISPATCH", "PHASE1_COLLECT", "PHASE2_DISPATCH",
      "PHASE2_COLLECT", "PHASE3_SYNTHESIZE", "DONE">>

StepsForward ==
    \/ \E k \in 1..(Len(PhaseOrder) - 1) : pc = PhaseOrder[k] /\ pc' = PhaseOrder[k + 1]
    \/ pc = "DONE" /\ pc' = "PHASE1_DISPATCH" /\ runs' = runs + 1

C14_StateSequence == [][pc' # pc => StepsForward]_vars

\* A second run on the instance is done although calls failed in each phase in
\* one of the ways a call can fail.
C14_Witness ==
    /\ pc = "DONE" /\ runs = 2 /\ api_key = "set"
    /\ tasks[1][1].kind = "network"
    /\ tasks[2][2].kind = "status"
    /\ tasks[3][1].kind = "payload"

\* C15: a run issues one call to each participant in phase 1, one to each in
\* phase 2 and one more, to the synthesizer, in phase 3, and no other call:
\* 2N+1 calls for N participants, whichever of them fail; at no moment of a run
\* have more been issued.
CallsIssued == Len(tasks[1]) + Len(tasks[2]) + Len(tasks[3])

Started(ph) == {i \in DOMAIN tasks[ph] : tasks[ph][i].st # "created"}

C15_CallCount ==
    /\ CallsIssued <= 2 * Cardinality(Participants) + 1
    /\ \A ph \in {1, 2}, p \in Participants : Cardinality(CallsTo(ph, p)) <= 1
    /\ \A p \in Participants :
        Cardinality(CallsTo(3, p)) <= (IF p = DesignatedSynthesizer THEN 1 ELSE 0)
    /\ \A ph \in Phases : \A i \in DOMAIN tasks[ph] : tasks[ph][i].model \in Participants
    /\ pc = "DONE" =>
        /\ \A ph \in {1, 2}, p \in Participants : Cardinality(CallsTo(ph, p)) = 1
        /\ Cardinality(CallsTo(3, DesignatedSynthesizer)) = 1
        /\ CallsIssued = 2 * Cardinality(Participants) + 1
        /\ \A ph \in Phases : Started(ph) = DOMAIN tasks[ph]
        /\ api_key = "set" => sends = CallsIssued

\* A run is done with failed calls in every phase and seven requests sent.
C15_Witness ==
    /\ pc = "DONE" /\ api_key = "set" /\ sends = 7
    /\ \E i \in DOMAIN tasks[1] : tasks[1][i].kind = "status"
    /\ \E i \in DOMAIN tasks[2] : tasks[2][i].kind = "network"
    /\ tasks[3][1].kind = "status"

\* C16: every phase-1 call receives the question itself; all phase-2 calls
\* receive one and the same prompt, which contains the question and, labelled
\* by participant, every phase-1 response verbatim, error strings included;
\* the phase-3 prompt contains the question, the phase-1 transcript under its
\* header and the phase-2 transcript under its header.
Contains(s, sub) ==
    \/ sub = <<>>
    \/ \E k \in 1..(Len(s) - Len(sub) + 1) :
        s[k] = sub[1] /\ SubSeq(s, k, k + Len(sub) - 1) = sub

Labelled(ph, p) == <<Upper(p), ":", " ">> \o ReturnedTo(ph, p)

C16_PromptContents ==
    /\ \A i \in DOMAIN tasks[1] : tasks[1][i].prompt = question
    /\ \A i \in DOMAIN tasks[2] : tasks[2][i].prompt = tasks[2][1].prompt
    /\ tasks[2] # <<>> =>
        LET prompt == tasks[2][1].prompt
        IN  /\ ~prompt.isNone
            /\ Contains(prompt.text, <<"Original Question: ">> \o Format(question))
            /\ \A p \in Participants : Contains(prompt.text, Labelled(1, p))
    /\ tasks[3] # <<>> =>
        LET prompt == tasks[3][1].prompt
        IN  /\ ~prompt.isNone
            /\ Contains(prompt.text, <<"Question: ">> \o Format(question))
            /\ Contains(prompt.text, <<"All perspectives considered:">> \o Transcript(1))
            /\ Contains(prompt.text, <<"Refined perspectives:">> \o Transcript(2))

\* The synthesizer is called for a real question after a phase 1 in which
\* gemini returned an error string and a phase 2 in which chatgpt did.
C16_Witness ==
    /\ tasks[3] # <<>> /\ NonEmpty(question)
    /\ tasks[1][2].kind = "status" /\ tasks[1][1].kind = "ok"
    /\ tasks[2][1].kind = "network" /\ tasks[2][3].kind = "ok"
    /\ Contains(tasks[2][2].prompt.text, tasks[1][2].result)
    /\ Contains(tasks[3][1].prompt.text, tasks[2][1].result)

----------------------------------------------------------------------------
(* Two request threads on the one instance conclave_ai (app.py lines 18, 51) *)

\* Mutant: initial_responses is kept on the instance (self.initial_responses).
LocalsSharingResponses ==
    {"pc", "question", "tasks", "order", "refined_dict", "all_perspectives",
     "refinement_prompt", "consensus_prompt", "result", "sends"}

\* The names run_conclave_debate binds: its parameter and local variables, held
\* in the frame of each call; everything else a run reads is on self.
Locals ==
    {"pc", "question", "tasks", "order", "initial_responses", "refined_dict",
     "all_perspectives", "refinement_prompt", "consensus_prompt", "result", "sends"}

\* The frame of the running call, as the thread keeps it while it does not run.
Frame ==
    [live |-> TRUE, pc |-> pc, question |-> question, tasks |-> tasks, order |-> order,
     initial_responses |-> initial_responses, refined_dict |-> refined_dict,
     all_perspectives |-> all_perspectives, refinement_prompt |-> refinement_prompt,
     consensus_prompt |-> consensus_prompt, result |-> result, sends |-> sends]

\* A thread that has not called run_conclave_debate yet.
IdleFrame ==
    [live |-> TRUE, pc |-> "INIT", question |-> NoneQuestion,
     tasks |-> [ph \in Phases |-> <<>>], order |-> <<>>,
     initial_responses |-> <<>>, refined_dict |-> <<>>, all_perspectives |-> <<>>,
     refinement_prompt |-> <<>>, consensus_prompt |-> <<>>, result |-> NoResult,
     sends |-> 0]

\* What a name is bound to after the other thread got the processor.
Bound(name, saved, now) == IF name \in Locals THEN saved ELSE now

\* The other request thread is scheduled: its frame becomes the running one.
Switch ==
    /\ other.live
    /\ other' = Frame
    /\ pc' = Bound("pc", other.pc, pc)
    /\ question' = Bound("question", other.question, question)
    /\ tasks' = Bound("tasks", other.tasks, tasks)
    /\ order' = Bound("order", other.order, order)
    /\ initial_responses' = Bound("initial_responses", other.initial_responses,
                                  initial_responses)
    /\ refined_dict' = Bound("refined_dict", other.refined_dict, refined_dict)
    /\ all_perspectives' = Bound("all_perspectives", other.all_perspectives,
                                 all_perspectives)
    /\ refinement_prompt' = Bound("refinement_prompt", other.refinement_prompt,
                                  refinement_prompt)
    /\ consensus_prompt' = Bound("consensus_prompt", other.consensus_prompt,
                                 consensus_prompt)
    /\ result' = Bound("result", other.result, result)
    /\ sends' = Bound("sends", other.sends, sends)
    /\ UNCHANGED <<api_key, runs, http, dead>>

\* Each run asks a question of its own, and a backend that answers answers the
\* question it was sent: the completion names the question.
RunQuestion(n) == Str(<<ToString(n)>>)
RunTags == {ToString(n) : n \in 1..(MaxRuns + 1)}
\* The backend of claude is unreliable while the first question is debated.
PairReplies(q, model_name) ==
    {Response(200, Completion(<<"re">> \o Format(q)), <<>>)}
    \cup (IF model_name = "claude" /\ q = RunQuestion(1)
          THEN {Response(500, [none |-> TRUE], <<"Internal Server Error">>)}
          ELSE {})

InitPair ==
    /\ Constructed
    /\ api_key = "set"
    /\ http = NoRequest
    /\ dead = {}
    /\ other = IdleFrame

NextPair ==
    \/ Invoke(RunQuestion(runs + 1)) /\ UNCHANGED ctx
    \/ Dispatch1 /\ UNCHANGED ctx
    \/ \E ph \in Phases, i \in 1..3 : QueryStart(ph, i) /\ UNCHANGED ctx
    \/ \E ph \in Phases, i \in 1..3 :
        /\ i \in DOMAIN tasks[ph]
        /\ \E reply \in PairReplies(question, tasks[ph][i].model) :
            QueryFinish(ph, i, reply)
        /\ UNCHANGED ctx
    \/ Collect1 /\ UNCHANGED ctx
    \/ Dispatch2 /\ UNCHANGED ctx
    \/ Collect2 /\ UNCHANGED ctx
    \/ Dispatch3 /\ UNCHANGED ctx
    \/ Return /\ UNCHANGED ctx
    \/ Switch

SpecPair == InitPair /\ [][NextPair]_vars

----------------------------------------------------------------------------
(* Runs under the event loop's scheduling, with backends that may never answer *)

\* A real question, and what session.post can come back with: a response with
\* a status and a body, or a transport failure (a timeout raised by the client
\* library is one).
LiveQuestions == {Str(<<"q">>)}
LiveReplies ==
    { Raises(<<"Cannot connect to host">>),
      Response(500, [none |-> TRUE], <<"Internal Server Error">>),
      Response(200, Completion(<<"x">>), <<>>) }

\* At most one backend accepts requests and never answers them.  query_model
\* passes no timeout to ClientSession or to post (lines 75-76).
DeadSets == {{}} \cup {{p} : p \in Participants}

InitLive ==
    /\ Constructed
    /\ api_key = "set"
    /\ http = NoRequest
    /\ dead \in DeadSets
    /\ other = NoFrame

NextLive ==
    \/ \E q \in LiveQuestions : Invoke(q) /\ UNCHANGED ctx
    \/ Dispatch1 /\ UNCHANGED ctx
    \/ \E ph \in Phases, i \in 1..3 : QueryStart(ph, i) /\ UNCHANGED ctx
    \/ \E ph \in Phases, i \in 1..3, reply \in LiveReplies :
        QueryFinish(ph, i, reply) /\ UNCHANGED ctx
    \/ Collect1 /\ UNCHANGED ctx
    \/ Dispatch2 /\ UNCHANGED ctx
    \/ Collect2 /\ UNCHANGED ctx
    \/ Dispatch3 /\ UNCHANGED ctx
    \/ Return /\ UNCHANGED ctx

\* A step of the run under way: anything but a new invocation.  The event loop
\* runs every coroutine that is ready and delivers every reply that arrived.
Progress == NextLive /\ runs' = runs

SpecLive == InitLive /\ [][NextLive]_vars /\ WF_vars(Progress)

\* C12: a POST to /api/analyze whose question is missing (no body, no
\* "question" key, a null question) or empty (empty or blank string) is
\* answered 400 and starts no debate run; a run that was started is answered
\* 200 when it returned and 500 when it failed.
Missing(body) ==
    \/ ~body.json
    \/ "question" \notin DOMAIN body.obj
    \/ body.obj.question.isNone

Empty(body) == ~Missing(body) /\ strip(body.obj.question.text) = <<>>

C12_MissingOrEmptyRejected ==
    /\ (http.status # 0 /\ (Missing(http.body) \/ Empty(http.body))) =>
        (http.status = 400 /\ ~http.started)
    /\ (http.status # 0 /\ http.started) =>
        http.status = (IF pc = "DONE" /\ result.returned THEN 200 ELSE 500)
    /\ (http.pending \/ http.status = 200) =>
        (http.started /\ ~Missing(http.body) /\ ~Empty(http.body))

\* C13: whether runs on the one instance follow each other or interleave,
\* everything a run holds (dict entries, prompts, consensus, result) comes from
\* its own question and from the replies to its own calls: the transcripts are
\* what its own calls returned and no text names the question of another run;
\* and no step of any run changes the credential of the instance or the frame
\* of the other run.
TextsOf(f) ==
    {f.all_perspectives, f.refinement_prompt, f.consensus_prompt, f.result.consensus}
    \cup {f.initial_responses[k].response : k \in DOMAIN f.initial_responses}
    \cup {f.refined_dict[k].response : k \in DOMAIN f.refined_dict}
    \cup {f.result.refined_responses[k].response : k \in DOMAIN f.result.refined_responses}
    \cup UNION {{f.tasks[ph][i].result : i \in DOMAIN f.tasks[ph]} : ph \in Phases}
    \cup UNION {{f.tasks[ph][i].prompt.text : i \in DOMAIN f.tasks[ph]} : ph \in Phases}

FromOwnCalls(f, d, ph) ==
    \A k \in DOMAIN d :
        \E i \in DOMAIN f.tasks[ph] :
            f.tasks[ph][i].model = d[k].model /\ f.tasks[ph][i].result = d[k].response

Isolated(f) ==
    /\ \A t \in TextsOf(f) : \A k \in DOMAIN t : t[k] \in RunTags => <<t[k]>> = Format(f.question)
    /\ FromOwnCalls(f, f.initial_responses, 1)
    /\ FromOwnCalls(f, f.refined_dict, 2)
    /\ f.result.returned =>
        /\ f.result.question = f.question
        /\ f.result.initial_responses = f.initial_responses
        /\ f.result.refined_responses = f.refined_dict
        /\ f.result.consensus = f.tasks[3][1].result

C13_RunIsolation ==
    /\ [](Isolated(Frame) /\ (other.live => Isolated(other)))
    /\ [][api_key' = api_key /\ (other' = other \/ other' = Frame)]_vars

\* Two runs are under way at once on the instance, each past its first phase,
\* one of them with a failed participant; each holds replies to its own
\* question.
C13_Witness ==
    /\ other.live
    /\ pc = "PHASE3_SYNTHESIZE" /\ tasks[3] # <<>>
    /\ other.pc = "PHASE2_COLLECT"
    /\ question = RunQuestion(2) /\ other.question = RunQuestion(1)
    /\ \E k \in DOMAIN other.initial_responses :
        IsInlineError(other.initial_responses[k].model, other.initial_responses[k].response)
    /\ \E k \in DOMAIN initial_responses :
        initial_responses[k].response = <<"re">> \o Format(question)

\* C17: a run on a real question whose every call comes back, with a response
\* or with a transport failure, reaches DONE and returns a result holding the
\* question, both transcripts, the consensus and the timestamp; and a result
\* is returned only at DONE, when the calls of all three phases have finished.
AllPhasesFinished ==
    \A ph \in Phases :
        /\ tasks[ph] # <<>>
        /\ \A i \in DOMAIN tasks[ph] : tasks[ph][i].st = "done"

Complete(r) ==
    /\ r.question = question
    /\ OneEntryEach(r.initial_responses)
    /\ OneEntryEach(r.refined_responses)
    /\ r.consensus = tasks[3][1].result
    /\ r.timestamp = "now"

C17_Terminates ==
    /\ [](result.returned => (pc = "DONE" /\ AllPhasesFinished /\ Complete(result)))
    /\ (pc = "PHASE1_DISPATCH" /\ NonEmpty(question) /\ dead = {})
            ~> (pc = "DONE" /\ result.returned)

\* A run whose calls all came back is done, some of them with a transport
\* failure and some with an error status.
C17_Witness ==
    /\ pc = "DONE" /\ result.returned /\ dead = {} /\ NonEmpty(question)
    /\ \E i \in DOMAIN tasks[1] : tasks[1][i].kind = "network"
    /\ \E i \in DOMAIN tasks[2] : tasks[2][i].kind = "status"
    /\ tasks[3][1].kind = "network"

====
